---- MODULE Spec2Model ----
(***************************************************************************)
(* Model of src/src/docker/docker.js: the argument builders                *)
(* processCreateContainerOptions / ProcessCreateNetworkOption and the      *)
(* Docker facade (CreateContainer, RunInContainer, CreateVolume,           *)
(* CreateNetwork) over a spawned `docker` process.                         *)
(***************************************************************************)
EXTENDS Integers, Sequences, FiniteSets, TLC

(***************************************************************************)
(* Bounds of the model.                                                    *)
(***************************************************************************)
\* longest volumes / environmentVariables / exposePorts / commands list
MaxList == 2
\* number of orchestration calls in flight in the concurrent specification
MaxCalls == 2
\* longest accumulated output (in characters) of one spawned process
MaxOut == 3

(***************************************************************************)
(* JavaScript values.  A value is a record tagged with its typeof; a       *)
(* number is kept as integer part and first decimal digit (3.5 is          *)
(* [int |-> 3, frac |-> 5]).  A property that was never set reads as       *)
(* undefined, so every object of the model carries all its properties and  *)
(* the unset ones hold Undef.                                              *)
(***************************************************************************)
Undef == [t |-> "undefined"]
Str(s) == [t |-> "string", s |-> s]
Num(i, f) == [t |-> "number", int |-> i, frac |-> f]
Bool(b) == [t |-> "boolean", b |-> b]
Arr(a) == [t |-> "array", a |-> a]

\* ToBoolean, as applied by `if (x)` and `!x`
Truthy(v) ==
  CASE v.t = "undefined" -> FALSE
    [] v.t = "string" -> IF "s" \in DOMAIN v THEN v.s # "" ELSE v.chars # <<>>
    [] v.t = "number" -> ~(v.int = 0 /\ v.frac = 0)
    [] v.t = "boolean" -> v.b
    [] OTHER -> TRUE

IsArray(v) == v.t = "array"

IsInteger(v) == v.t = "number" /\ v.frac = 0

\* the text a template literal `${v}` inserts
ToStr(v) ==
  CASE v.t = "string" -> v.s
    [] v.t = "boolean" -> IF v.b THEN "true" ELSE "false"
    [] OTHER -> "undefined"

(***************************************************************************)
(* processCreateContainerOptions, statement by statement.  The builder     *)
(* state is the args array so far and the exception thrown, if any; once   *)
(* something is thrown the remaining statements do not run.                *)
(***************************************************************************)
Throw(st, kind) == [st EXCEPT !.threw = kind]

Push(st, toks) == [st EXCEPT !.args = @ \o toks]

Pop(args) == SubSeq(args, 1, Len(args) - 1)

BaseArgs(run, detach) ==
  LET args == IF run THEN <<Str("container"), Str("run"), Str("--detach")>>
                     ELSE <<Str("container"), Str("create")>>
  IN IF run /\ ~detach THEN Pop(args) ELSE args

CheckImage(st, options) ==
  IF st.threw # "none" THEN st
  ELSE IF ~Truthy(options.image) THEN Throw(st, "Error")
  ELSE st

PushName(st, options) ==
  IF st.threw # "none" THEN st
  ELSE IF Truthy(options.name) THEN Push(st, <<Str("--name"), options.name>>)
  ELSE st

PushNetwork(st, options) ==
  IF st.threw # "none" THEN st
  ELSE IF Truthy(options.network) THEN Push(st, <<Str("--net"), options.network>>)
  ELSE st

PushHealth(st, options) ==
  IF st.threw # "none" THEN st
  ELSE IF ~Truthy(options.health) THEN st
  ELSE LET h == options.health
       IN IF ~Truthy(h.command) THEN Throw(st, "TypeError")
          ELSE LET s1 == Push(st, <<Str("--health-cmd"), h.command>>)
                   s2 == IF Truthy(h.interval)
                         THEN Push(s1, <<Str("--health-interval"), h.interval>>)
                         ELSE s1
                   s3 == IF Truthy(h.retries)
                         THEN IF ~IsInteger(h.retries)
                              THEN Throw(s2, "TypeError")
                              ELSE Push(s2, <<Str("--health-retries"), h.retries>>)
                         ELSE s2
                   s4 == IF s3.threw # "none" THEN s3
                         ELSE IF Truthy(h.startPeriod)
                         THEN Push(s3, <<Str("--health-start-period"), h.startPeriod>>)
                         ELSE s3
               IN IF s4.threw # "none" THEN s4
                  ELSE IF Truthy(h.timeout)
                  THEN Push(s4, <<Str("--health-timeout"), h.timeout>>)
                  ELSE s4

PushRm(st, options) ==
  IF st.threw # "none" THEN st
  ELSE IF Truthy(options.rm) THEN Push(st, <<Str("--rm")>>)
  ELSE st

\* items.forEach(item => { if (!item[a] || !item[b]) throw ...;
\*                         args.push(flag, `${item[first]}${sep}${item[second]}`) })
RECURSIVE ForEachPair(_, _, _, _, _, _)
ForEachPair(st, items, flag, first, second, sep) ==
  IF st.threw # "none" \/ items = <<>> THEN st
  ELSE LET item == Head(items)
       IN IF ~Truthy(item[first]) \/ ~Truthy(item[second])
          THEN Throw(st, "Error")
          ELSE ForEachPair(
                 Push(st, <<Str(flag),
                            Str(ToStr(item[first]) \o sep \o ToStr(item[second]))>>),
                 Tail(items), flag, first, second, sep)

PushVolumes(st, options) ==
  IF st.threw # "none" THEN st
  ELSE IF ~Truthy(options.volumes) THEN st
  ELSE IF ~IsArray(options.volumes) THEN Throw(st, "Error")
  ELSE ForEachPair(st, options.volumes.a, "-v", "host", "docker", ":")

PushEnvironmentVariables(st, options) ==
  IF st.threw # "none" THEN st
  ELSE IF ~Truthy(options.environmentVariables) THEN st
  ELSE IF ~IsArray(options.environmentVariables) THEN Throw(st, "Error")
  ELSE ForEachPair(st, options.environmentVariables.a, "-e", "name", "value", "=")

PushExposePorts(st, options) ==
  IF st.threw # "none" THEN st
  ELSE IF ~Truthy(options.exposePorts) THEN st
  ELSE IF ~IsArray(options.exposePorts) THEN Throw(st, "Error")
  ELSE ForEachPair(st, options.exposePorts.a, "-p", "host", "docker", ":")

PushImage(st, options) ==
  IF st.threw # "none" THEN st ELSE Push(st, <<options.image>>)

PushCommands(st, options) ==
  IF st.threw # "none" THEN st
  ELSE IF ~Truthy(options.commands) THEN st
  ELSE IF ~IsArray(options.commands) THEN Throw(st, "TypeError")
  ELSE Push(st, options.commands.a)

\* the value of the call: the array returned, or the exception thrown
Outcome(st) ==
  IF st.threw # "none" THEN [threw |-> st.threw, args |-> <<>>] ELSE st

processCreateContainerOptionsEnvFirst(options, run, detach) ==
  LET s0 == [threw |-> "none", args |-> BaseArgs(run, detach)]
      s1 == CheckImage(s0, options)
      s2 == PushName(s1, options)
      s3 == PushNetwork(s2, options)
      s4 == PushHealth(s3, options)
      s5 == PushRm(s4, options)
      s6 == PushEnvironmentVariables(s5, options)
      s7 == PushVolumes(s6, options)
      s8 == PushExposePorts(s7, options)
      s9 == PushImage(s8, options)
  IN Outcome(PushCommands(s9, options))

processCreateContainerOptionsCommandsFirst(options, run, detach) ==
  LET s0 == [threw |-> "none", args |-> BaseArgs(run, detach)]
      s1 == CheckImage(s0, options)
      s2 == PushName(s1, options)
      s3 == PushNetwork(s2, options)
      s4 == PushHealth(s3, options)
      s5 == PushRm(s4, options)
      s6 == PushVolumes(s5, options)
      s7 == PushEnvironmentVariables(s6, options)
      s8 == PushExposePorts(s7, options)
      s9 == PushCommands(s8, options)
  IN Outcome(PushImage(s9, options))

processCreateContainerOptions(options, run, detach) ==
  LET s0 == [threw |-> "none", args |-> BaseArgs(run, detach)]
      s1 == CheckImage(s0, options)
      s2 == PushName(s1, options)
      s3 == PushNetwork(s2, options)
      s4 == PushHealth(s3, options)
      s5 == PushRm(s4, options)
      s6 == PushVolumes(s5, options)
      s7 == PushEnvironmentVariables(s6, options)
      s8 == PushExposePorts(s7, options)
      s9 == PushImage(s8, options)
  IN Outcome(PushCommands(s9, options))

ProcessCreateNetworkOption(options) ==
  IF ~Truthy(options.name)
  THEN [threw |-> "Error", args |-> <<>>]
  ELSE [threw |-> "none",
        args |-> <<Str("network"), Str("create"), options.name>>]

(***************************************************************************)
(* Process output.  The text of a stream is a sequence of characters.      *)
(***************************************************************************)
Text(chars) == [t |-> "string", chars |-> chars]

\* String.prototype.replace(pattern, '') with a string pattern: only the
\* first occurrence is replaced
RECURSIVE ReplaceFirst(_, _)
ReplaceFirst(chars, ch) ==
  IF chars = <<>> THEN <<>>
  ELSE IF Head(chars) = ch THEN Tail(chars)
  ELSE <<Head(chars)>> \o ReplaceFirst(Tail(chars), ch)

(***************************************************************************)
(* Configuration objects handed to the facade.                             *)
(***************************************************************************)
HealthObject(command, interval, retries, startPeriod, timeout) ==
  [t |-> "object", command |-> command, interval |-> interval,
   retries |-> retries, startPeriod |-> startPeriod, timeout |-> timeout]

\* { image: 'wordpress' }
PlainOptions ==
  [image |-> Str("wordpress"), name |-> Undef, network |-> Undef,
   health |-> Undef, rm |-> Undef, volumes |-> Undef,
   environmentVariables |-> Undef, exposePorts |-> Undef,
   commands |-> Undef, id |-> Undef, status |-> Undef]

RECURSIVE SeqsUpTo(_, _)
SeqsUpTo(S, n) ==
  IF n = 0 THEN {<<>>}
  ELSE LET shorter == SeqsUpTo(S, n - 1)
       IN shorter \cup {Append(q, x) : q \in {r \in shorter : Len(r) = n - 1}, x \in S}

VolumeA == [host |-> Str("./a"), docker |-> Str("/b")]
VolumeB == [host |-> Str("./c"), docker |-> Str("/d")]
VolumeNoHost == [host |-> Undef, docker |-> Str("/b")]
VolumeEmptyDocker == [host |-> Str("./a"), docker |-> Str("")]

VolumesVals ==
  {Undef, Bool(FALSE), Str("./a:/b")}
  \cup {Arr(q) : q \in SeqsUpTo({VolumeA, VolumeB}, MaxList)}
  \cup {Arr(<<VolumeNoHost>>), Arr(<<VolumeA, VolumeEmptyDocker>>)}

EnvA == [name |-> Str("K"), value |-> Str("v")]
EnvB == [name |-> Str("L"), value |-> Str("w")]
EnvNoName == [name |-> Undef, value |-> Str("v")]
EnvEmptyValue == [name |-> Str("K"), value |-> Str("")]

EnvironmentVariablesVals ==
  {Undef, Str(""), Str("K=v")}
  \cup {Arr(q) : q \in SeqsUpTo({EnvA, EnvB}, MaxList)}
  \cup {Arr(<<EnvEmptyValue>>), Arr(<<EnvA, EnvNoName>>)}

PortA == [host |-> Str("8000"), docker |-> Str("80")]
PortB == [host |-> Str("8443"), docker |-> Str("443")]
PortNoDocker == [host |-> Str("8000"), docker |-> Undef]

ExposePortsVals ==
  {Undef, Num(0, 0), Str("8000:80")}
  \cup {Arr(q) : q \in SeqsUpTo({PortA, PortB}, MaxList)}
  \cup {Arr(<<PortNoDocker>>), Arr(<<PortA, PortNoDocker>>)}

CommandsVals ==
  {Undef, Str("ls")}
  \cup {Arr(q) : q \in SeqsUpTo({Str("ls"), Str("--detach")}, MaxList)}

RetriesVals == {Undef, Num(0, 0), Num(3, 0), Num(3, 5), Str("abc"), Str("")}

HealthVals ==
  {Undef}
  \cup {HealthObject(c, i, r, s, t) :
          c \in {Undef, Str("curl")}, i \in {Undef, Str("5s")},
          r \in RetriesVals, s \in {Undef, Str("1s")}, t \in {Undef, Str("2s")}}

FullHealth == HealthObject(Str("curl"), Str("5s"), Num(3, 0), Str("1s"), Str("2s"))

\* configurations that vary the scalar options and the commands
ScalarConfigs ==
  {[PlainOptions EXCEPT !.image = i, !.name = n, !.network = w, !.rm = r,
                        !.health = h, !.commands = c, !.volumes = v] :
     i \in {Undef, Str("wordpress")},
     n \in {Undef, Str(""), Str("web"), Str("--detach")},
     w \in {Undef, Str("net1")}, r \in {Undef, Bool(TRUE)},
     h \in {Undef, FullHealth, HealthObject(Undef, Str("5s"), Undef, Undef, Undef)},
     c \in CommandsVals, v \in {Undef, Arr(<<VolumeA>>)}}

\* configurations that vary the health block
HealthConfigs ==
  {[PlainOptions EXCEPT !.health = h, !.name = n, !.rm = r, !.exposePorts = p] :
     h \in HealthVals, n \in {Undef, Str("web")}, r \in {Undef, Bool(TRUE)},
     p \in {Undef, Arr(<<PortA>>)}}

\* configurations that vary the three lists of pairs
ListConfigs ==
  {[PlainOptions EXCEPT !.volumes = v, !.environmentVariables = e,
                        !.exposePorts = p, !.commands = c] :
     v \in VolumesVals, e \in EnvironmentVariablesVals, p \in ExposePortsVals,
     c \in {Undef, Arr(<<Str("ls")>>)}}

ContainerConfigs == ScalarConfigs \cup HealthConfigs \cup ListConfigs

\* the few configurations used where calls run concurrently
SmallContainerConfigs ==
  {[PlainOptions EXCEPT !.image = i, !.rm = r, !.commands = Arr(<<Str("ls")>>)] :
     i \in {Undef, Str("wordpress")}, r \in {Undef, Bool(TRUE)}}

NetworkObject(name) == [name |-> name, id |-> Undef, status |-> Undef]

NetworkConfigs == {NetworkObject(Undef), NetworkObject(Str("net1"))}

\* what CreateNetwork is called with: a string, or the caller's object
NetworkInputs == {Str("net1"), Str(""), Undef}

VolumeNames == {Str("my-vol")}

(***************************************************************************)
(* State.                                                                  *)
(*   heap   the caller's configuration objects: heap.box is the container  *)
(*          options object, heap.net the network options object.  Calls    *)
(*          that are passed an object share it (JavaScript passes objects  *)
(*          by reference).                                                 *)
(*   given  the value each of the caller's objects had when the caller     *)
(*          built it (never written after Init).                           *)
(*   calls  one record per call of a Docker method, in the order the calls *)
(*          were made: its arguments, where it stands, what it passed to   *)
(*          spawn, the text accumulated from the process, the object       *)
(*          CreateNetwork makes for a string argument, the id (for a       *)
(*          volume, the name) and status its callback assigned, and what   *)
(*          the returned promise settled with.                             *)
(***************************************************************************)
VARIABLES heap, given, calls

vars == <<heap, given, calls>>

NoResult == [kind |-> "none"]


CallIds == DOMAIN calls

\* the statements up to and including spawn('docker', args): a throw of the
\* argument builder leaves the method before spawn is reached
SpawnAlways(built) == <<built.args>>

SpawnAfter(built) == IF built.threw # "none" THEN <<>> ELSE <<built.args>>

Started(op, run, detach, input, local, built) ==
  calls' = Append(calls,
             [op |-> op, run |-> run, detach |-> detach, input |-> input,
              local |-> local, threw |-> built.threw,
              spawned |-> SpawnAfter(built),
              pc |-> IF built.threw # "none" THEN "threw" ELSE "running",
              stdout |-> <<>>, stderr |-> <<>>,
              assigned |-> [id |-> Undef, status |-> Undef],
              result |-> NoResult])

\* n bounds the number of calls made
CreateContainer(n, run, detach) ==
  /\ Len(calls) < n
  /\ Started("CreateContainer", run, detach, Undef, NetworkObject(Undef),
             processCreateContainerOptions(heap.box, run, detach))
  /\ UNCHANGED <<heap, given>>

\* the two guards of RunInContainer, then the builder with run = true,
\* detach = false
RunInContainerBuilt(options) ==
  IF ~Truthy(options.commands) THEN [threw |-> "TypeError", args |-> <<>>]
  ELSE IF ~Truthy(options.rm) THEN [threw |-> "TypeError", args |-> <<>>]
  ELSE processCreateContainerOptions(options, TRUE, FALSE)

RunInContainer(n) ==
  /\ Len(calls) < n
  /\ Started("RunInContainer", TRUE, FALSE, Undef, NetworkObject(Undef),
             RunInContainerBuilt(heap.box))
  /\ UNCHANGED <<heap, given>>

CreateVolume(n, name) ==
  /\ Len(calls) < n
  /\ Started("CreateVolume", FALSE, FALSE, name, NetworkObject(Undef),
             [threw |-> "none", args |-> <<Str("volume"), Str("create"), name>>])
  /\ UNCHANGED <<heap, given>>

\* input is a string, or Undef when the caller passes its object heap.net
CreateNetwork(n, input) ==
  /\ Len(calls) < n
  /\ LET local == IF input.t = "string" THEN NetworkObject(input)
                  ELSE NetworkObject(Undef)
         options == IF input.t = "string" THEN local ELSE heap.net
     IN Started("CreateNetwork", FALSE, FALSE, input, local,
                ProcessCreateNetworkOption(options))
  /\ UNCHANGED <<heap, given>>

(***************************************************************************)
(* ReturnPromise: the text of both streams is accumulated as it arrives;   *)
(* when the process ends with code 0 the promise resolves with what the    *)
(* method's callback returns, otherwise it rejects.                        *)
(***************************************************************************)
StdoutData(c, chunk) ==
  /\ calls[c].pc = "running"
  /\ Len(calls[c].stdout) + Len(chunk) <= MaxOut
  /\ calls' = [calls EXCEPT ![c].stdout = @ \o chunk]
  /\ UNCHANGED <<heap, given>>

StderrData(c, chunk) ==
  /\ calls[c].pc = "running"
  /\ Len(calls[c].stderr) + Len(chunk) <= MaxOut
  /\ calls' = [calls EXCEPT ![c].stderr = @ \o chunk]
  /\ UNCHANGED <<heap, given>>

\* options.status = run ? 'started' : 'created'; if (options.rm) ... 'removed'
ContainerStatusIgnoringRm(options, run) ==
  Str(IF run THEN "started" ELSE "created")

ContainerStatus(options, run) ==
  IF Truthy(options.rm) THEN Str("removed")
  ELSE Str(IF run THEN "started" ELSE "created")

\* stdout.replace('\n', '')
IdentityOf(stdout) == Text(ReplaceFirst(stdout, "\n"))

\* the entity built from the options object: its fields as the callback
\* set them
Entity(kind, options) == [kind |-> kind, id |-> options.id, status |-> options.status]

ContainerCallback(options, run, stdout) ==
  [options EXCEPT !.id = IdentityOf(stdout), !.status = ContainerStatus(options, run)]

NetworkCallback(options, stdout) ==
  [options EXCEPT !.id = IdentityOf(stdout), !.status = Str("alive")]

Resolve(c, id, status, result) ==
  calls' = [calls EXCEPT ![c].pc = "resolved",
                         ![c].assigned = [id |-> id, status |-> status],
                         ![c].result = result]

CloseOk(c) ==
  /\ calls[c].pc = "running"
  /\ LET call == calls[c]
     IN CASE call.op = "CreateContainer" ->
               LET options == ContainerCallback(heap.box, call.run, call.stdout)
               IN /\ heap' = [heap EXCEPT !.box = options]
                  /\ Resolve(c, options.id, options.status,
                             Entity("Container", options))
          [] call.op = "RunInContainer" ->
               /\ Resolve(c, Undef, Undef,
                          [kind |-> "Output", stdout |-> call.stdout,
                           stderr |-> call.stderr])
               /\ UNCHANGED heap
          [] call.op = "CreateVolume" ->
               /\ Resolve(c, IdentityOf(call.stdout), Str("alive"),
                          [kind |-> "Volume", name |-> IdentityOf(call.stdout),
                           status |-> Str("alive")])
               /\ UNCHANGED heap
          [] call.op = "CreateNetwork" ->
               IF call.input.t = "string"
               THEN LET options == NetworkCallback(call.local, call.stdout)
                    IN /\ calls' = [calls EXCEPT
                                     ![c].pc = "resolved",
                                     ![c].local = options,
                                     ![c].assigned = [id |-> options.id,
                                                      status |-> options.status],
                                     ![c].result = Entity("Network", options)]
                       /\ UNCHANGED heap
               ELSE LET options == NetworkCallback(heap.net, call.stdout)
                    IN /\ heap' = [heap EXCEPT !.net = options]
                       /\ Resolve(c, options.id, options.status,
                                  Entity("Network", options))
  /\ UNCHANGED given

CloseFailed(c) ==
  /\ calls[c].pc = "running"
  /\ calls' = [calls EXCEPT ![c].pc = "rejected",
                            ![c].result = [kind |-> "ExecutionError",
                                           message |-> calls[c].stderr]]
  /\ UNCHANGED <<heap, given>>

LaunchFailed(c) ==
  /\ calls[c].pc = "running"
  /\ calls[c].stdout = <<>> /\ calls[c].stderr = <<>>
  /\ calls' = [calls EXCEPT ![c].pc = "rejected",
                            ![c].result = [kind |-> "LaunchError"]]
  /\ UNCHANGED <<heap, given>>

(***************************************************************************)
(* Specifications.                                                         *)
(***************************************************************************)
\* the runtime answers with one line: an identifier and a newline
Lines == {<<"i", "d", "\n">>, <<"x", "y", "\n">>}

Chars == {<<"a">>, <<"\n">>, <<" ">>}

InitWith(boxes) ==
  /\ heap \in [box : boxes, net : NetworkConfigs]
  /\ given = heap
  /\ calls = <<>>

\* Spec: up to MaxCalls calls in flight on the same objects
Init == InitWith(SmallContainerConfigs)

Next ==
  \/ \E run \in BOOLEAN, detach \in BOOLEAN : CreateContainer(MaxCalls, run, detach)
  \/ RunInContainer(MaxCalls)
  \/ \E name \in VolumeNames : CreateVolume(MaxCalls, name)
  \/ \E input \in {Str("net1"), Undef} : CreateNetwork(MaxCalls, input)
  \/ \E c \in CallIds, chunk \in Lines : StdoutData(c, chunk)
  \/ \E c \in CallIds : CloseOk(c)
  \/ \E c \in CallIds : CloseFailed(c)
  \/ \E c \in CallIds : LaunchFailed(c)

Spec == Init /\ [][Next]_vars

\* SpecArgs: one call, over the large set of container configurations, up
\* to the point where the process is spawned
InitArgs == InitWith(ContainerConfigs)

NextArgs ==
  \/ \E run \in BOOLEAN, detach \in BOOLEAN : CreateContainer(1, run, detach)
  \/ RunInContainer(1)
  \/ \E input \in NetworkInputs : CreateNetwork(1, input)

SpecArgs == InitArgs /\ [][NextArgs]_vars

\* SpecOut: one call, with the process output arriving character by character
InitOut ==
  InitWith({[PlainOptions EXCEPT !.name = Str("a"), !.rm = r, !.commands = c] :
              r \in {Undef, Bool(TRUE)},
              c \in {Undef, Arr(<<>>), Arr(<<Str("ls")>>)}})

NextOut ==
  \/ \E run \in BOOLEAN, detach \in BOOLEAN : CreateContainer(1, run, detach)
  \/ RunInContainer(1)
  \/ \E name \in VolumeNames : CreateVolume(1, name)
  \/ \E input \in NetworkInputs : CreateNetwork(1, input)
  \/ \E c \in CallIds, chunk \in Chars : StdoutData(c, chunk)
  \/ \E c \in CallIds : StderrData(c, <<"e">>)
  \/ \E c \in CallIds : CloseOk(c)
  \/ \E c \in CallIds : CloseFailed(c)
  \/ \E c \in CallIds : LaunchFailed(c)

SpecOut == InitOut /\ [][NextOut]_vars

(***************************************************************************)
(* Properties.                                                             *)
(***************************************************************************)
\* the calls of the argument builder: every CreateContainer call, and the
\* RunInContainer calls that pass the method's own two guards
BuilderCalls ==
  {c \in CallIds :
     \/ calls[c].op = "CreateContainer"
     \/ /\ calls[c].op = "RunInContainer"
        /\ Truthy(given.box.commands) /\ Truthy(given.box.rm)}

Returned(c) == calls[c].threw = "none"

\* the array processCreateContainerOptions returned in call c
ArgsOf(c) == calls[c].spawned[1]

\* an option counts as provided when it is set to a non-empty value
Provided(v) == v \notin {Undef, Str(""), Bool(FALSE), Num(0, 0)}

When(cond, toks) == IF cond THEN toks ELSE <<>>

ListOf(v) == IF IsArray(v) THEN v.a ELSE <<>>

\* flag, first<sep>second, once per item, in the order of the items
PairTokens(items, flag, first, second, sep) ==
  [i \in 1..(2 * Len(items)) |->
     IF i % 2 = 1 THEN Str(flag)
     ELSE Str(items[i \div 2][first].s \o sep \o items[i \div 2][second].s)]

BaseTokens(run, detach) ==
  IF ~run THEN <<Str("container"), Str("create")>>
  ELSE IF detach THEN <<Str("container"), Str("run"), Str("--detach")>>
  ELSE <<Str("container"), Str("run")>>

HealthTokens(h) ==
  IF ~Provided(h) THEN <<>>
  ELSE <<Str("--health-cmd"), h.command>>
       \o When(Provided(h.interval), <<Str("--health-interval"), h.interval>>)
       \o When(Provided(h.retries), <<Str("--health-retries"), h.retries>>)
       \o When(Provided(h.startPeriod), <<Str("--health-start-period"), h.startPeriod>>)
       \o When(Provided(h.timeout), <<Str("--health-timeout"), h.timeout>>)

ExpectedArgs(o, run, detach) ==
  BaseTokens(run, detach)
  \o When(Provided(o.name), <<Str("--name"), o.name>>)
  \o When(Provided(o.network), <<Str("--net"), o.network>>)
  \o HealthTokens(o.health)
  \o When(Provided(o.rm), <<Str("--rm")>>)
  \o PairTokens(ListOf(o.volumes), "-v", "host", "docker", ":")
  \o PairTokens(ListOf(o.environmentVariables), "-e", "name", "value", "=")
  \o PairTokens(ListOf(o.exposePorts), "-p", "host", "docker", ":")
  \o <<o.image>>
  \o ListOf(o.commands)

C1_WitnessLists ==
  \E c \in BuilderCalls :
    /\ Returned(c) /\ ~calls[c].run
    /\ given.box.volumes = Arr(<<VolumeA, VolumeB>>)
    /\ given.box.environmentVariables = Arr(<<EnvB, EnvA>>)
    /\ given.box.exposePorts = Arr(<<PortA, PortB>>)

CreateCalls ==
  {c \in CallIds : calls[c].op = "CreateContainer" /\ ~calls[c].run}

Last(q) == q[Len(q)]

StartsWithCreate(args) ==
  Len(args) >= 2 /\ args[1] = Str("container") /\ args[2] = Str("create")

DetachCount(q) == Cardinality({i \in 1..Len(q) : q[i] = Str("--detach")})

\* the values of the configuration that the builder copies into the array
SuppliedValues(o) ==
  <<o.name, o.network, o.image>>
  \o When(o.health # Undef,
          <<o.health.command, o.health.interval, o.health.startPeriod,
            o.health.timeout>>)
  \o ListOf(o.commands)

\* C2, as stated: with image set and run = false the array starts with
\* container, create, its last element is the image, and no element is
\* --detach.
C2_ImageLast ==
  \A c \in CreateCalls :
    Returned(c) =>
      /\ StartsWithCreate(ArgsOf(c))
      /\ Last(ArgsOf(c)) = given.box.image
      /\ DetachCount(ArgsOf(c)) = 0

\* C2, amended: with image set and run = false the array starts with
\* container, create; the image is followed by exactly the commands, so it
\* is the last element when there are none; and the only --detach elements
\* are values the configuration itself supplies.
C2_ImageThenCommands ==
  \A c \in CreateCalls :
    Returned(c) =>
      LET args == ArgsOf(c)
          cmds == ListOf(given.box.commands)
      IN /\ StartsWithCreate(args)
         /\ Len(args) >= 3 + Len(cmds)
         /\ args[Len(args) - Len(cmds)] = given.box.image
         /\ SubSeq(args, Len(args) - Len(cmds) + 1, Len(args)) = cmds
         /\ (cmds = <<>> => Last(args) = given.box.image)
         /\ DetachCount(args) = DetachCount(SuppliedValues(given.box))

\* a create with a name and two commands, one of them --detach
C2_Witness ==
  \E c \in CreateCalls :
    /\ Returned(c)
    /\ given.box.name = Str("web")
    /\ given.box.commands = Arr(<<Str("ls"), Str("--detach")>>)

\* what the method of call c validates, recomputed from its arguments
ValidationOf(c) ==
  CASE calls[c].op = "CreateContainer" ->
         processCreateContainerOptions(given.box, calls[c].run, calls[c].detach).threw
    [] calls[c].op = "RunInContainer" -> RunInContainerBuilt(given.box).threw
    [] calls[c].op = "CreateNetwork" ->
         ProcessCreateNetworkOption(
           IF calls[c].input.t = "string" THEN NetworkObject(calls[c].input)
           ELSE given.net).threw
    [] OTHER -> "none"

\* the configuration faults the claim lists, for the method of call c
Faulty(c) ==
  LET o == given.box
      op == calls[c].op
  IN \/ /\ op \in {"CreateContainer", "RunInContainer"}
        /\ \/ ~Provided(o.image)
           \/ Provided(o.health) /\ ~Provided(o.health.command)
           \/ Provided(o.volumes) /\ ~IsArray(o.volumes)
           \/ Provided(o.environmentVariables) /\ ~IsArray(o.environmentVariables)
           \/ Provided(o.exposePorts) /\ ~IsArray(o.exposePorts)
           \/ Provided(o.commands) /\ ~IsArray(o.commands)
     \/ op = "RunInContainer" /\ (~Provided(o.commands) \/ ~Provided(o.rm))
     \/ /\ op = "CreateNetwork"
        /\ ~Provided(IF calls[c].input.t = "string" THEN calls[c].input
                     ELSE given.net.name)

\* C3: a call that ends in a configuration error has spawned no process,
\* and a call that has spawned a process passed its whole validation first.
C3_NoSpawnOnConfigError ==
  \A c \in CallIds :
    /\ calls[c].threw # "none" => calls[c].spawned = <<>> /\ calls[c].pc = "threw"
    /\ calls[c].spawned # <<>> => ValidationOf(c) = "none" /\ ~Faulty(c)
    /\ Faulty(c) => calls[c].threw # "none"

\* commands that are not a list are found only after the image was pushed:
\* the last check of the builder still comes before spawn
C3_Witness ==
  \E c \in CallIds :
    /\ calls[c].op = "CreateContainer"
    /\ Provided(given.box.image) /\ given.box.commands = Str("ls")
    /\ calls[c].pc = "threw" /\ calls[c].spawned = <<>>

CreateContainerCalls == {c \in CallIds : calls[c].op = "CreateContainer"}

ExpectedStatus(rm, run) ==
  IF Provided(rm) THEN Str("removed")
  ELSE IF run THEN Str("started") ELSE Str("created")

\* C4: the status a successful CreateContainer assigns is removed if rm was
\* requested, else started if run, else created, whatever detach is; a call
\* that has not succeeded has assigned none, and the options object carries
\* a status only once some CreateContainer call has succeeded.
C4_StatusOnSuccess ==
  /\ \A c \in CreateContainerCalls :
       IF calls[c].pc = "resolved"
       THEN calls[c].assigned.status = ExpectedStatus(given.box.rm, calls[c].run)
       ELSE calls[c].assigned.status = Undef
  /\ heap.box.status # Undef =>
       /\ \E c \in CreateContainerCalls : calls[c].pc = "resolved"
       /\ heap.box.status \in {Str("removed"), Str("started"), Str("created")}

\* a foreground run with rm succeeded, while another CreateContainer failed
C4_Witness ==
  \E c, d \in CreateContainerCalls :
    /\ calls[c].pc = "resolved" /\ calls[c].run /\ ~calls[c].detach
    /\ given.box.rm = Bool(TRUE)
    /\ calls[c].assigned.status = Str("removed")
    /\ calls[d].pc = "rejected"

Whitespace == {" ", "\n"}

RECURSIVE TrimStart(_)
TrimStart(q) ==
  IF q # <<>> /\ Head(q) \in Whitespace THEN TrimStart(Tail(q)) ELSE q

RECURSIVE TrimEnd(_)
TrimEnd(q) ==
  IF q # <<>> /\ q[Len(q)] \in Whitespace
  THEN TrimEnd(SubSeq(q, 1, Len(q) - 1)) ELSE q

\* String.prototype.trim
Trim(q) == TrimEnd(TrimStart(q))

\* C5: the id CreateContainer and CreateNetwork assign, and the name
\* CreateVolume assigns, is the trimmed stdout of the call's process.
C5_IdentityIsTrimmedStdout ==
  \A c \in CallIds :
    calls[c].pc = "resolved"
    /\ calls[c].op \in {"CreateContainer", "CreateVolume", "CreateNetwork"}
    => calls[c].assigned.id = Text(Trim(calls[c].stdout))

RunInContainerCalls == {c \in CallIds : calls[c].op = "RunInContainer"}

\* C6: RunInContainer throws before spawning unless commands is a non-empty
\* list and rm is true; otherwise it spawns the arguments built with
\* run = true, detach = false and resolves with the raw stdout and stderr.
C6_RunInContainerGuards ==
  \A c \in RunInContainerCalls :
    LET o == given.box
        allowed == IsArray(o.commands) /\ Len(o.commands.a) > 0 /\ o.rm = Bool(TRUE)
    IN /\ ~allowed => calls[c].pc = "threw" /\ calls[c].spawned = <<>>
       /\ allowed => calls[c].spawned = <<ExpectedArgs(o, TRUE, FALSE)>>
       /\ calls[c].pc = "resolved" =>
            calls[c].result = [kind |-> "Output", stdout |-> calls[c].stdout,
                               stderr |-> calls[c].stderr]

PairLists(o) ==
  <<[list |-> o.volumes, first |-> "host", second |-> "docker"],
    [list |-> o.environmentVariables, first |-> "name", second |-> "value"],
    [list |-> o.exposePorts, first |-> "host", second |-> "docker"]>>

\* the list is set to something that is not a list
NotAList(p) == p.list # Undef /\ ~IsArray(p.list)

\* some element of the list lacks one of its two fields
LacksField(p) ==
  /\ IsArray(p.list)
  /\ \E i \in 1..Len(p.list.a) :
       p.list.a[i][p.first] = Undef \/ p.list.a[i][p.second] = Undef

IsWhole(v) == v.t = "number" /\ v.frac = 0

\* nothing but the three lists of pairs can make the builder fail
RestIsValid(o) ==
  /\ Provided(o.image)
  /\ o.health = Undef
     \/ /\ Provided(o.health.command)
        /\ o.health.retries = Undef \/ IsWhole(o.health.retries)
  /\ o.commands = Undef \/ IsArray(o.commands)

\* C7: the builder fails when volumes, environmentVariables or exposePorts
\* is set to a value that is not a list, and when an element lacks one of
\* its pair fields; lists whose elements all supply both fields are never
\* the reason for a failure.
C7_PairListValidation ==
  \A c \in CreateContainerCalls :
    LET lists == PairLists(given.box)
    IN /\ (\E k \in 1..3 : NotAList(lists[k])) => ~Returned(c)
       /\ (\E k \in 1..3 : LacksField(lists[k])) => ~Returned(c)
       /\ ( /\ RestIsValid(given.box)
            /\ \A k \in 1..3 : ~NotAList(lists[k]) /\ ~LacksField(lists[k]) )
          => Returned(c)

\* C8: with a health command, a retries value that is set but not a whole
\* number makes the builder fail, and a whole number n puts the pair
\* --health-retries, n right after the health command and interval tokens.
C8_HealthRetries ==
  \A c \in CreateContainerCalls :
    LET o == given.box
    IN (Provided(o.image) /\ o.health # Undef /\ Provided(o.health.command)) =>
         LET r == o.health.retries
             args == ArgsOf(c)
         IN /\ (r # Undef /\ ~IsWhole(r)) => ~Returned(c)
            /\ (IsWhole(r) /\ Returned(c)) =>
                 \E i \in 3..(Len(args) - 1) :
                   /\ args[i] = Str("--health-retries") /\ args[i + 1] = r
                   /\ \/ args[i - 2] = Str("--health-cmd")
                      \/ /\ args[i - 2] = Str("--health-interval")
                         /\ i > 4 /\ args[i - 4] = Str("--health-cmd")

\* C9: no call changes a configuration object of the caller: each holds
\* the values it was given, and no id or status has been added.
C9_ConfigurationUnchanged == heap = given

\* C10: the id and status a call assigned stay as that call assigned them,
\* whatever other calls complete afterwards.
C10_NoInterference ==
  \A c \in CallIds :
    calls[c].pc = "resolved" =>
      /\ calls[c].op = "CreateContainer" =>
           /\ heap.box.id = calls[c].assigned.id
           /\ heap.box.status = calls[c].assigned.status
      /\ (calls[c].op = "CreateNetwork" /\ calls[c].input = Undef) =>
           /\ heap.net.id = calls[c].assigned.id
           /\ heap.net.status = calls[c].assigned.status
====
